---- MODULE Spec2Model ----
(***************************************************************************)
(* NewsPulse: the article fetch / pagination / bookmark logic of the App   *)
(* component (src/src/App.jsx, and its later version with pull-to-refresh  *)
(* in src/unnamed/part_002), as a state machine.                           *)
(*                                                                         *)
(* One step of the model is one browser task handled to completion: a user *)
(* event with the React state updates and effects it causes, or the        *)
(* continuation of an awaited fetch.  Handlers read the values of the      *)
(* render they were created in; a continuation after `await` still reads   *)
(* the values of the render in which the handler was invoked, except where *)
(* it uses a functional update (setX(prev => ...)).                        *)
(***************************************************************************)
EXTENDS Naturals, Sequences, FiniteSets, Bags, TLC

VARIABLES
    articles,         \* useState([])      the held article list
    loading,          \* useState(true)
    error,            \* useState(null)    Null or a message
    activeCategory,   \* useState('general')
    searchQuery,      \* useState('')      a sequence of characters
    bookmarks,        \* useState(JSON.parse(localStorage.getItem('bookmarks') || '[]'))
    storage,          \* localStorage item 'bookmarks'
    page,             \* useState(1)
    hasMore,          \* useState(true)
    loadingMore,      \* useState(false)
    selectedArticle,  \* useState(null)    NoArticle or an article
    isRefreshing,     \* useState(false)
    mainMounted,      \* the .main element the touch listeners were bound to is in the DOM
    inflight,         \* the fetches awaiting their response (a bag of requests)
    ev,               \* the task handled last (history)
    relay             \* the CORS relay: the request it handles and its reply

vars == <<articles, loading, error, activeCategory, searchQuery, bookmarks, storage,
          page, hasMore, loadingMore, selectedArticle, isRefreshing, mainMounted,
          inflight, ev, relay>>

----------------------------------------------------------------------------
(* Bounds of the model *)

\* the largest page number a load-more may request
MaxPage == 3

\* the largest number of fetches in flight at once
MaxInFlight == 2

----------------------------------------------------------------------------
(* Program constants *)

\* pageSize=12 of every request, and the threshold of hasMore
PageSize == 12

categories == <<"general", "technology", "business", "sports", "health",
                "science", "entertainment">>

CategoryIds == {categories[i] : i \in DOMAIN categories}

RateLimitMessage == "API rate limit exceeded. Please try again later."

FailedMessage == "Failed to fetch news"

FallbackMessage == "Unable to load news. Please try again later."

Null == "null"

----------------------------------------------------------------------------
(* Articles.  An article is identified by its url; ver stands for the rest *)
(* of its content (title, description, ...) as the remote source serves it *)
(* (ver 1) or as an earlier session stored it (ver 0).                     *)

NoArticle == [url |-> 0, ver |-> 0]

Art(u, v) == [url |-> u, ver |-> v]

\* title and description of an article, as sequences of characters
Title(a) ==
    IF a.ver = 0 THEN <<"o", "l", "d">>
    ELSE IF a.url % 3 = 0 THEN <<"A", "I">>
    ELSE IF a.url % 3 = 1 THEN <<"C", "u", "p">>
    ELSE <<>>

Description(a) ==
    IF a.url % 4 = 0 THEN <<"n", "a", "i", "l">> ELSE <<"x">>

\* a page of the remote source: len articles with consecutive urls
Batch(start, len) == [i \in 1..len |-> Art(start + i - 1, 1)]

\* what the remote source may answer: duplicate-free, at most PageSize long
Batches == {Batch(1, PageSize), Batch(13, 5)}

\* the search texts the user types
Queries == {<<>>, <<"A", "i">>}

\* the categories the user picks
PickedCategories == {"general", "bookmarks"}

\* the bookmark list an earlier session has stored
StoredBookmarks == {<<Art(1, 0), Art(2, 0)>>}

\* the urls of the cards the user acts on
TappedUrls == {1}

Urls(list) == {list[i].url : i \in DOMAIN list}

NoDuplicates(list) ==
    \A i, j \in DOMAIN list : list[i].url = list[j].url => i = j

----------------------------------------------------------------------------
(* Requests and responses *)

\* encodeURIComponent: letters are kept, a space is escaped
EncodeURIComponent(text) == [i \in DOMAIN text |-> IF text[i] = " " THEN "%20" ELSE text[i]]

NoEndpoint == [path |-> "", country |-> "", category |-> "", q |-> <<>>, sortBy |-> "",
               language |-> "", page |-> 0, pageSize |-> 0]

\* the endpoint fetchNews builds: its path and its query parameters (a parameter
\* that is not sent is empty; q is the sequence of its characters, or the category id)
FetchNewsEndpoint(category, query, pageNum) ==
    IF query # <<>>
    THEN [path |-> "everything", country |-> "", category |-> "",
          q |-> EncodeURIComponent(query), sortBy |-> "", language |-> "en",
          page |-> pageNum, pageSize |-> PageSize]
    ELSE IF category = "general"
    THEN [path |-> "top-headlines", country |-> "us", category |-> "",
          q |-> <<>>, sortBy |-> "", language |-> "en",
          page |-> pageNum, pageSize |-> PageSize]
    ELSE [path |-> "everything", country |-> "", category |-> "",
          q |-> <<category>>, sortBy |-> "publishedAt", language |-> "en",
          page |-> pageNum, pageSize |-> PageSize]

\* the endpoint handleLoadMore builds for the page after the given one
LoadMoreEndpoint(category, query, currentPage) ==
    IF query # <<>>
    THEN [path |-> "everything", country |-> "", category |-> "",
          q |-> EncodeURIComponent(query), sortBy |-> "", language |-> "en",
          page |-> currentPage + 1, pageSize |-> PageSize]
    ELSE IF category = "general"
    THEN [path |-> "top-headlines", country |-> "us", category |-> "",
          q |-> <<>>, sortBy |-> "", language |-> "en",
          page |-> currentPage + 1, pageSize |-> PageSize]
    ELSE [path |-> "everything", country |-> "", category |-> "",
          q |-> <<category>>, sortBy |-> "publishedAt", language |-> "en",
          page |-> currentPage + 1, pageSize |-> PageSize]

NoReq == [kind |-> "none", category |-> "", query |-> <<>>, pageNum |-> 0,
          held |-> <<>>, refresh |-> FALSE, endpoint |-> NoEndpoint]

\* fetchNews(category, pageNum, true) with the searchQuery of its closure
ResetReq(category, query, refresh) ==
    [kind |-> "reset", category |-> category, query |-> query, pageNum |-> 1,
     held |-> <<>>, refresh |-> refresh,
     endpoint |-> FetchNewsEndpoint(category, query, 1)]

\* handleLoadMore's fetch: page + 1 and the articles of the render it ran in
MoreReq(category, query, pageNum, held) ==
    [kind |-> "more", category |-> category, query |-> query, pageNum |-> pageNum,
     held |-> held, refresh |-> FALSE,
     endpoint |-> LoadMoreEndpoint(category, query, pageNum - 1)]

NoRes == [kind |-> "none", status |-> 0, message |-> "", batch |-> <<>>]

OkRes(batch) == [kind |-> "ok", status |-> 200, message |-> "", batch |-> batch]

\* response.ok is false
StatusRes(status) == [kind |-> "status", status |-> status, message |-> "", batch |-> <<>>]

\* fetch() rejects
ThrowRes(message) == [kind |-> "throw", status |-> 0, message |-> message, batch |-> <<>>]

\* response.json() or JSON.parse(data.contents) throws
BadJsonRes == [kind |-> "badjson", status |-> 200, message |-> "Unexpected token", batch |-> <<>>]

\* statuses for which response.ok is false
NonSuccessStatuses == {400, 401, 404, 429, 500}

FailureResponses == {StatusRes(429), StatusRes(500), ThrowRes("Failed to fetch"), BadJsonRes}

Responses == {OkRes(b) : b \in Batches} \cup FailureResponses

\* the task handled last: the handler and, for a continuation, the pair its request
\* was made for and the kind of response it handled
Event(op, req, res) ==
    [op |-> op, category |-> req.category, query |-> req.query, res |-> res.kind]

Outstanding == BagCardinality(inflight)

----------------------------------------------------------------------------
(* Persistence: JSON.stringify / JSON.parse of the bookmark list *)

\* (variant: only the urls are written, the content of the articles is lost)
StringifyUrlsOnly(list) == [i \in DOMAIN list |-> <<list[i].url, 0>>]

Stringify(list) == [i \in DOMAIN list |-> <<list[i].url, list[i].ver>>]

Parse(text) == [i \in DOMAIN text |-> Art(text[i][1], text[i][2])]

\* localStorage.getItem('bookmarks') || '[]'
StoredText(item) == IF item.set THEN item.text ELSE <<>>

----------------------------------------------------------------------------
(* Text: toLowerCase and includes *)

ToLowerChar(c) == IF c = "A" THEN "a" ELSE IF c = "I" THEN "i" ELSE IF c = "C" THEN "c" ELSE c

\* (variant: toLowerCase keeps the case)
ToLowerCaseKeepingCase(text) == text

ToLowerCase(text) == [i \in DOMAIN text |-> ToLowerChar(text[i])]

Includes(text, part) ==
    \E k \in 0..Len(text) :
        /\ k + Len(part) <= Len(text)
        /\ \A i \in 1..Len(part) : text[k + i] = part[i]

\* const filteredArticles = articles.filter(...)
filteredArticles ==
    SelectSeq(articles, LAMBDA a :
        \/ searchQuery = <<>>
        \/ Includes(ToLowerCase(Title(a)), ToLowerCase(searchQuery))
        \/ Includes(ToLowerCase(Description(a)), ToLowerCase(searchQuery)))

\* activeCategory === 'bookmarks' ? bookmarks : filteredArticles
Shown == IF activeCategory = "bookmarks" THEN bookmarks ELSE filteredArticles

ListView == selectedArticle = NoArticle

\* the articles grid is rendered: !loading && !error && list not empty
GridRendered == ListView /\ ~loading /\ error = Null /\ Len(Shown) > 0

\* the load-more control is rendered: hasMore && !loading && not bookmarks
LoadMoreOffered == ListView /\ hasMore /\ ~loading /\ activeCategory # "bookmarks"

\* the entries the list view displays: those of the grid, when it is rendered
Displayed == IF GridRendered THEN Shown ELSE <<>>

\* the Try Again button is rendered: {error && ...} of the list view
TryAgainOffered == ListView /\ error # Null

\* the search input is rendered: it belongs to the header of the list view
SearchOffered == ListView

\* the articles whose bookmark button is rendered: those of the cards of the grid,
\* or the article of the reader
BookmarkButtons ==
    IF ListView
    THEN (IF GridRendered THEN {Shown[i] : i \in DOMAIN Shown} ELSE {})
    ELSE {selectedArticle}

\* the cards the user acts on
Cards ==
    IF GridRendered
    THEN {Shown[i] : i \in {j \in DOMAIN Shown : Shown[j].url \in TappedUrls}}
    ELSE {}

----------------------------------------------------------------------------
(* The pieces of fetchNews and handleLoadMore *)

\* (variant: any non-empty page counts as "more available")
HasMoreOfNonEmpty(newArticles) == Len(newArticles) > 0

\* setHasMore(newArticles.length >= 12)
HasMoreOf(newArticles) == Len(newArticles) >= PageSize

\* newArticles.filter(n => !articles.some(e => e.url === n.url)),
\* articles being the list of the render the handler was invoked in
UniqueArticles(held, newArticles) ==
    SelectSeq(newArticles, LAMBDA n : ~(\E i \in DOMAIN held : held[i].url = n.url))

\* (variant: every non-success status gets the same message)
ErrorMessageGeneric(res) ==
    LET message == IF res.kind = "status" THEN FailedMessage ELSE res.message
    IN  IF message = "" THEN FallbackMessage ELSE message

\* err.message || 'Unable to load news. Please try again later.'
ErrorMessage(res) ==
    LET message == IF res.kind = "status"
                   THEN (IF res.status = 429 THEN RateLimitMessage ELSE FailedMessage)
                   ELSE res.message
    IN  IF message = "" THEN FallbackMessage ELSE message

\* fetchNews up to its await: setLoading(true), setError(null), fetch(...)
FetchNewsStart(req) ==
    /\ loading' = TRUE
    /\ error' = Null
    /\ inflight' = inflight (+) SetToBag({req})

\* (variant: the effect does not clear the list)
ResetCursorKeepsList ==
    /\ page' = 1
    /\ hasMore' = TRUE
    /\ UNCHANGED articles

\* the effect on [activeCategory, searchQuery, fetchNews], before its fetchNews call
ResetCursor ==
    /\ page' = 1
    /\ articles' = <<>>
    /\ hasMore' = TRUE

\* the values the touch handlers see: they are bound once, in the mount render
MountCategory == "general"

MountQuery == <<>>

MountIsRefreshing == FALSE

----------------------------------------------------------------------------
(* The CORS relay (the serverless handler): values *)

Undefined == "undefined"

\* process.env.VITE_NEWS_API_KEY
API_KEY == "key"

\* a JSON value: null, or an object with the fields the handler and the claims look at
JsonNull == [kind |-> "null", error |-> Undefined, message |-> Undefined,
             articles |-> Undefined]

JsonObject(err, msg, arts) ==
    [kind |-> "object", error |-> err, message |-> msg, articles |-> arts]

\* a body: the text of a JSON value, or text that is not JSON
JsonText(value) == [json |-> TRUE, text |-> "", value |-> value]

NotJsonText == [json |-> FALSE, text |-> "<html>", value |-> JsonNull]

\* no body: res.status(200).end()
NoBody == [json |-> FALSE, text |-> "", value |-> JsonNull]

\* the requests that reach the handler
RelayMethods == {"GET", "POST", "OPTIONS"}

\* Texts of a url are sequences of tokens: the delimiters "?", "&" and "=" are
\* tokens of their own, every other token stands for a run of plain characters.
\* A parameter is a pair <<name, value>> of texts, req.query a sequence of them in
\* the order of the request's query string.
\* the values of the endpoint parameter a client may send
RelayEndpoints ==
    {<<"top-headlines">>, <<"everything">>,
     <<"everything", "?", "apiKey", "=", "stolen", "&">>}

\* the values of the page parameter a client may send
RelayPages == {<<"1">>, <<"2", "&", "apiKey", "=", "stolen">>}

\* the values of an apiKey parameter of the client; the empty text for none sent
RelayClientKeys == {<<>>, <<"client">>}

RelayRequest(method, endpoint, pageParam, keyParam) ==
    [method |-> method,
     query |-> <<<<(<<"endpoint">>), endpoint>>, <<(<<"page">>), pageParam>>>>
               \o (IF keyParam = <<>> THEN <<>> ELSE <<<<(<<"apiKey">>), keyParam>>>>)]

NoRelayRequest == [method |-> "", query |-> <<>>]

\* what the call of the remote source may come to: fetch() rejects, or a response
\* with a status and a body
UpstreamThrows(message) ==
    [kind |-> "throw", status |-> 0, body |-> NoBody, message |-> message]

UpstreamResponse(status, body) ==
    [kind |-> "response", status |-> status, body |-> body, message |-> ""]

NoUpstream == [kind |-> "none", status |-> 0, body |-> NoBody, message |-> ""]

Upstreams ==
    {UpstreamThrows("fetch failed"), UpstreamThrows("")}
    \cup {UpstreamResponse(200, JsonText(JsonObject(Undefined, Undefined, a))) :
              a \in {"[12 articles]", "[]"}}
    \cup {UpstreamResponse(200, JsonText(JsonNull)), UpstreamResponse(200, NotJsonText)}
    \cup {UpstreamResponse(st, JsonText(JsonObject(Undefined, "apiKeyInvalid", Undefined))) :
              st \in {401, 429}}
    \cup {UpstreamResponse(500, JsonText(JsonObject(Undefined, Undefined, Undefined))),
          UpstreamResponse(500, JsonText(JsonObject(Undefined, "", Undefined))),
          UpstreamResponse(500, JsonText(JsonNull)),
          UpstreamResponse(502, NotJsonText)}

\* response.ok
ResponseOk(up) == up.status >= 200 /\ up.status <= 299

\* const { endpoint, ...queryParams } = req.query
Endpoint(req) ==
    IF \E i \in 1..Len(req.query) : req.query[i][1] = <<"endpoint">>
    THEN req.query[CHOOSE i \in 1..Len(req.query) : req.query[i][1] = <<"endpoint">>][2]
    ELSE <<Undefined>>

QueryParams(req) == SelectSeq(req.query, LAMBDA p : p[1] # <<"endpoint">>)

\* { ...queryParams, apiKey: API_KEY }: a property the spread already set keeps its
\* place and takes the new value, one it did not set comes last
WithApiKey(params) ==
    IF \E i \in 1..Len(params) : params[i][1] = <<"apiKey">>
    THEN [i \in 1..Len(params) |->
             IF params[i][1] = <<"apiKey">> THEN <<(<<"apiKey">>), <<API_KEY>>>>
             ELSE params[i]]
    ELSE Append(params, <<(<<"apiKey">>), <<API_KEY>>>>)

\* the percent-encoding of URLSearchParams, and its inverse
PercentEncode(text) ==
    [i \in 1..Len(text) |->
        CASE text[i] = "?" -> "%3F"
          [] text[i] = "&" -> "%26"
          [] text[i] = "=" -> "%3D"
          [] OTHER -> text[i]]

PercentDecode(text) ==
    [i \in 1..Len(text) |->
        CASE text[i] = "%3F" -> "?"
          [] text[i] = "%26" -> "&"
          [] text[i] = "%3D" -> "="
          [] OTHER -> text[i]]

\* new URLSearchParams(object).toString()
RECURSIVE URLSearchParamsToString(_)
URLSearchParamsToString(params) ==
    IF params = <<>> THEN <<>>
    ELSE PercentEncode(Head(params)[1]) \o <<"=">> \o PercentEncode(Head(params)[2])
         \o (IF Len(params) > 1 THEN <<"&">> \o URLSearchParamsToString(Tail(params))
             ELSE <<>>)

QueryString(req) == URLSearchParamsToString(WithApiKey(QueryParams(req)))

BaseUrl == "https://newsapi.org/v2/"

\* the url the handler calls: `https://newsapi.org/v2/${endpoint}?${queryString}`
ApiUrl(req) == <<BaseUrl>> \o Endpoint(req) \o <<"?">> \o QueryString(req)

NoApiUrl == <<>>

\* How the remote source reads the url it is called with: the path is what stands
\* between the base and the first "?", the query what follows it, cut at every "&"
\* into parameters, each cut at its first "=" into name and value
IndexOf(text, token) ==
    IF \E i \in 1..Len(text) : text[i] = token
    THEN CHOOSE i \in 1..Len(text) :
            text[i] = token /\ \A j \in 1..(i - 1) : text[j] # token
    ELSE 0

Before(text, token) ==
    IF IndexOf(text, token) = 0 THEN text
    ELSE SubSeq(text, 1, IndexOf(text, token) - 1)

After(text, token) ==
    IF IndexOf(text, token) = 0 THEN <<>>
    ELSE SubSeq(text, IndexOf(text, token) + 1, Len(text))

RECURSIVE Split(_, _)
Split(text, token) ==
    IF IndexOf(text, token) = 0 THEN <<text>>
    ELSE <<Before(text, token)>> \o Split(After(text, token), token)

UrlPath(url) == Before(Tail(url), "?")

UrlQuery(url) == After(Tail(url), "?")

ParseQuery(query) ==
    LET pieces == SelectSeq(Split(query, "&"), LAMBDA piece : piece # <<>>)
    IN  [i \in 1..Len(pieces) |->
            <<PercentDecode(Before(pieces[i], "=")),
              PercentDecode(After(pieces[i], "="))>>]

\* calls counts the fetch(apiUrl) calls made for the request, replies the responses
\* sent for it (res.status(..).end() and res.status(..).json(..))
RelayIdle == [pc |-> "idle", req |-> NoRelayRequest, cors |-> FALSE, apiUrl |-> NoApiUrl,
              upstream |-> NoUpstream, status |-> 0, body |-> NoBody,
              calls |-> 0, replies |-> 0]

----------------------------------------------------------------------------
(* The state after the first render and its effects *)

Init ==
    /\ storage \in {[set |-> TRUE, text |-> Stringify(b)] : b \in StoredBookmarks}
    /\ bookmarks = Parse(StoredText(storage))
    /\ articles = <<>>
    /\ loading = TRUE
    /\ error = Null
    /\ activeCategory = "general"
    /\ searchQuery = <<>>
    /\ page = 1
    /\ hasMore = TRUE
    /\ loadingMore = FALSE
    /\ selectedArticle = NoArticle
    /\ isRefreshing = FALSE
    /\ mainMounted = TRUE
    /\ inflight = SetToBag({ResetReq("general", <<>>, FALSE)})
    /\ ev = Event("mount", NoReq, NoRes)
    /\ relay = RelayIdle

----------------------------------------------------------------------------
(* User events *)

\* (variant: a category change drops the fetches still in flight)
SelectCategoryCancelling(c) ==
    /\ c # activeCategory
    /\ Outstanding < MaxInFlight
    /\ activeCategory' = c
    /\ ResetCursor
    /\ loading' = TRUE
    /\ error' = Null
    /\ inflight' = SetToBag({ResetReq(c, searchQuery, FALSE)})
    /\ ev' = Event("category", NoReq, NoRes)
    /\ UNCHANGED <<searchQuery, bookmarks, storage, loadingMore, selectedArticle,
                   isRefreshing, mainMounted>>
    /\ UNCHANGED relay

\* (variant: the reset effect also empties the bookmark list)
SelectCategoryClearingBookmarks(c) ==
    /\ c # activeCategory
    /\ Outstanding < MaxInFlight
    /\ activeCategory' = c
    /\ ResetCursor
    /\ FetchNewsStart(ResetReq(c, searchQuery, FALSE))
    /\ bookmarks' = <<>>
    /\ ev' = Event("category", NoReq, NoRes)
    /\ UNCHANGED <<searchQuery, storage, loadingMore, selectedArticle,
                   isRefreshing, mainMounted>>
    /\ UNCHANGED relay

\* onClick={() => setActiveCategory(id)} and the reset effect it triggers
SelectCategory(c) ==
    /\ c # activeCategory
    /\ Outstanding < MaxInFlight
    /\ activeCategory' = c
    /\ ResetCursor
    /\ FetchNewsStart(ResetReq(c, searchQuery, FALSE))
    /\ ev' = Event("category", NoReq, NoRes)
    /\ UNCHANGED <<searchQuery, bookmarks, storage, loadingMore, selectedArticle,
                   isRefreshing, mainMounted>>
    /\ UNCHANGED relay

\* onChange={(e) => setSearchQuery(e.target.value)} and the reset effect
ChangeSearch(q) ==
    /\ ListView
    /\ q # searchQuery
    /\ Outstanding < MaxInFlight
    /\ searchQuery' = q
    /\ ResetCursor
    /\ FetchNewsStart(ResetReq(activeCategory, q, FALSE))
    /\ ev' = Event("search", NoReq, NoRes)
    /\ UNCHANGED <<activeCategory, bookmarks, storage, loadingMore, selectedArticle,
                   isRefreshing, mainMounted>>
    /\ UNCHANGED relay

\* <button onClick={() => fetchNews(activeCategory, 1, true)}>Try Again</button>
TryAgain ==
    /\ ListView
    /\ error # Null
    /\ Outstanding < MaxInFlight
    /\ FetchNewsStart(ResetReq(activeCategory, searchQuery, FALSE))
    /\ ev' = Event("tryAgain", NoReq, NoRes)
    /\ UNCHANGED <<articles, activeCategory, searchQuery, bookmarks, storage, page,
                   hasMore, loadingMore, selectedArticle, isRefreshing, mainMounted>>
    /\ UNCHANGED relay

\* (variant: the guard does not look at loadingMore)
LoadMoreGuardWithoutLoadingMore == ~loading /\ hasMore

\* if (!loading && hasMore && !loadingMore)
LoadMoreGuard == ~loading /\ hasMore /\ ~loadingMore

\* handleLoadMore up to its await
handleLoadMore ==
    /\ ListView
    /\ activeCategory # "bookmarks"
    /\ page < MaxPage
    /\ Outstanding < MaxInFlight
    /\ IF LoadMoreGuard
       THEN /\ loadingMore' = TRUE
            /\ inflight' = inflight (+) SetToBag({MoreReq(activeCategory, searchQuery,
                                                           page + 1, articles)})
            /\ ev' = Event("loadMore", NoReq, NoRes)
       ELSE /\ UNCHANGED <<loadingMore, inflight>>
            /\ ev' = Event("loadMoreIgnored", NoReq, NoRes)
    /\ UNCHANGED <<articles, loading, error, activeCategory, searchQuery, bookmarks,
                   storage, page, hasMore, selectedArticle, isRefreshing, mainMounted>>
    /\ UNCHANGED relay

\* handleTouchMove past the pull thresholds, and handlePullToRefresh up to its await
handlePullToRefresh ==
    /\ mainMounted
    /\ ListView
    /\ ~MountIsRefreshing
    /\ Outstanding < MaxInFlight
    /\ isRefreshing' = TRUE
    /\ FetchNewsStart(ResetReq(MountCategory, MountQuery, TRUE))
    /\ ev' = Event("refresh", NoReq, NoRes)
    /\ UNCHANGED <<articles, activeCategory, searchQuery, bookmarks, storage, page,
                   hasMore, loadingMore, selectedArticle, mainMounted>>
    /\ UNCHANGED relay

\* categories.findIndex(cat => cat.id === category), counted from 1; 0 when absent
FindIndex(category) ==
    IF \E i \in DOMAIN categories : categories[i] = category
    THEN CHOOSE i \in DOMAIN categories : categories[i] = category
    ELSE 0

\* the category handleTouchEnd passes to setActiveCategory, category being the
\* activeCategory it reads; the category itself when it calls nothing
SwipeTarget(direction, category) ==
    IF direction = "right" /\ FindIndex(category) > 1
    THEN categories[FindIndex(category) - 1]
    ELSE IF direction = "left" /\ FindIndex(category) < Len(categories)
    THEN categories[FindIndex(category) + 1]
    ELSE category

\* handleTouchEnd calls setActiveCategory
SwipeSets(direction, category) ==
    \/ direction = "right" /\ FindIndex(category) > 1
    \/ direction = "left" /\ FindIndex(category) < Len(categories)

SwipeDirections == {"left", "right"}

\* handleTouchEnd for a horizontal swipe, and the reset effect when activeCategory
\* changes; the handler is the one of the mount render
handleTouchEnd(direction) ==
    /\ mainMounted
    /\ ListView
    /\ IF /\ SwipeSets(direction, MountCategory)
          /\ SwipeTarget(direction, MountCategory) # activeCategory
       THEN /\ Outstanding < MaxInFlight
            /\ activeCategory' = SwipeTarget(direction, MountCategory)
            /\ ResetCursor
            /\ FetchNewsStart(ResetReq(SwipeTarget(direction, MountCategory),
                                       searchQuery, FALSE))
       ELSE UNCHANGED <<activeCategory, page, articles, hasMore, loading, error, inflight>>
    /\ ev' = [Event("swipe", NoReq, NoRes) EXCEPT !.category = direction]
    /\ UNCHANGED <<searchQuery, bookmarks, storage, loadingMore, selectedArticle,
                   isRefreshing, mainMounted>>
    /\ UNCHANGED relay

----------------------------------------------------------------------------
(* Continuations of the awaited fetches *)

\* what fetchNews sets when its fetch failed: setError(...); if (reset) setArticles([])
\* (variant: the list is kept)
ResetFailedKeepsList(res) ==
    /\ error' = ErrorMessage(res)
    /\ UNCHANGED <<articles, hasMore, page>>

ResetFailed(res) ==
    /\ error' = ErrorMessage(res)
    /\ articles' = <<>>
    /\ UNCHANGED <<hasMore, page>>

\* (variant: a reset response is appended to the held list)
FetchNewsDoneAppending(req, res) ==
    /\ req.kind = "reset"
    /\ inflight' = inflight (-) SetToBag({req})
    /\ IF res.kind = "ok"
       THEN /\ articles' = articles \o res.batch
            /\ hasMore' = HasMoreOf(res.batch)
            /\ page' = req.pageNum
            /\ UNCHANGED error
       ELSE ResetFailed(res)
    /\ loading' = FALSE
    /\ isRefreshing' = IF req.refresh THEN FALSE ELSE isRefreshing
    /\ ev' = Event("fetchNewsDone", req, res)
    /\ UNCHANGED <<activeCategory, searchQuery, bookmarks, storage, loadingMore,
                   selectedArticle, mainMounted>>
    /\ UNCHANGED relay

\* fetchNews after its await, for the request req answered by res
FetchNewsDone(req, res) ==
    /\ req.kind = "reset"
    /\ inflight' = inflight (-) SetToBag({req})
    /\ IF res.kind = "ok"
       THEN /\ articles' = res.batch
            /\ hasMore' = HasMoreOf(res.batch)
            /\ page' = req.pageNum
            /\ UNCHANGED error
       ELSE ResetFailed(res)
    /\ loading' = FALSE
    /\ isRefreshing' = IF req.refresh THEN FALSE ELSE isRefreshing
    /\ ev' = Event("fetchNewsDone", req, res)
    /\ UNCHANGED <<activeCategory, searchQuery, bookmarks, storage, loadingMore,
                   selectedArticle, mainMounted>>
    /\ UNCHANGED relay

\* handleLoadMore after its await
LoadMoreDone(req, res) ==
    /\ req.kind = "more"
    /\ inflight' = inflight (-) SetToBag({req})
    /\ IF res.kind = "ok"
       THEN /\ articles' = articles \o UniqueArticles(req.held, res.batch)
            /\ hasMore' = HasMoreOf(res.batch)
            /\ page' = page + 1
       ELSE UNCHANGED <<articles, hasMore, page>>
    /\ loadingMore' = FALSE
    /\ ev' = Event("loadMoreDone", req, res)
    /\ UNCHANGED <<loading, error, activeCategory, searchQuery, bookmarks, storage,
                   selectedArticle, isRefreshing, mainMounted>>
    /\ UNCHANGED relay

----------------------------------------------------------------------------
(* Bookmarks and the reader *)

\* bookmarks.some(b => b.url === article.url)
isBookmarked(article) == \E i \in DOMAIN bookmarks : bookmarks[i].url = article.url

\* (variant: the bookmark is looked up by the whole article, not by its url)
NewBookmarksByIdentity(list, article) ==
    IF \E i \in DOMAIN list : list[i] = article
    THEN SelectSeq(list, LAMBDA b : b # article)
    ELSE Append(list, article)

\* (variant: a removal drops the first entry, not the entry of the article's url)
NewBookmarksDroppingFirst(list, article) ==
    IF \E i \in DOMAIN list : list[i].url = article.url
    THEN Tail(list)
    ELSE Append(list, article)

\* (variant: a toggle never removes)
NewBookmarksAppending(list, article) == Append(list, article)

\* the list toggleBookmark computes from a bookmark list
NewBookmarks(list, article) ==
    IF \E i \in DOMAIN list : list[i].url = article.url
    THEN SelectSeq(list, LAMBDA b : b.url # article.url)
    ELSE Append(list, article)

\* (variant: a toggle in the reader goes back to the list)
toggleBookmarkClosingReader(article) ==
    /\ article \in (IF ListView THEN Cards ELSE {selectedArticle})
    /\ bookmarks' = NewBookmarks(bookmarks, article)
    /\ storage' = [set |-> TRUE, text |-> Stringify(NewBookmarks(bookmarks, article))]
    /\ selectedArticle' = NoArticle
    /\ ev' = Event("toggleBookmark", NoReq, NoRes)
    /\ UNCHANGED <<articles, loading, error, activeCategory, searchQuery, page, hasMore,
                   loadingMore, isRefreshing, mainMounted, inflight>>
    /\ UNCHANGED relay

toggleBookmark(article) ==
    /\ article \in (IF ListView THEN Cards ELSE {selectedArticle})
    /\ bookmarks' = NewBookmarks(bookmarks, article)
    /\ storage' = [set |-> TRUE, text |-> Stringify(NewBookmarks(bookmarks, article))]
    /\ ev' = Event("toggleBookmark", NoReq, NoRes)
    /\ UNCHANGED <<articles, loading, error, activeCategory, searchQuery, page, hasMore,
                   loadingMore, selectedArticle, isRefreshing, mainMounted, inflight>>
    /\ UNCHANGED relay

openArticleReader(article) ==
    /\ article \in Cards
    /\ selectedArticle' = article
    /\ mainMounted' = FALSE
    /\ ev' = Event("openArticle", NoReq, NoRes)
    /\ UNCHANGED <<articles, loading, error, activeCategory, searchQuery, bookmarks,
                   storage, page, hasMore, loadingMore, isRefreshing, inflight>>
    /\ UNCHANGED relay

\* (variant: going back reloads the list)
closeArticleReaderRefetching ==
    /\ ~ListView
    /\ selectedArticle' = NoArticle
    /\ FetchNewsStart(ResetReq(activeCategory, searchQuery, FALSE))
    /\ ev' = Event("closeArticle", NoReq, NoRes)
    /\ UNCHANGED <<articles, activeCategory, searchQuery, bookmarks,
                   storage, page, hasMore, loadingMore, isRefreshing, mainMounted>>
    /\ UNCHANGED relay

closeArticleReader ==
    /\ ~ListView
    /\ selectedArticle' = NoArticle
    /\ ev' = Event("closeArticle", NoReq, NoRes)
    /\ UNCHANGED <<articles, loading, error, activeCategory, searchQuery, bookmarks,
                   storage, page, hasMore, loadingMore, isRefreshing, mainMounted, inflight>>
    /\ UNCHANGED relay

----------------------------------------------------------------------------

AllArticles == {Art(u, v) : u \in TappedUrls, v \in {0, 1}}

Next ==
    \/ \E c \in PickedCategories : SelectCategory(c)
    \/ \E q \in Queries : ChangeSearch(q)
    \/ TryAgain
    \/ handleLoadMore
    \/ handlePullToRefresh
    \/ \E d \in SwipeDirections : handleTouchEnd(d)
    \/ \E req \in BagToSet(inflight), res \in Responses : FetchNewsDone(req, res)
    \/ \E req \in BagToSet(inflight), res \in Responses : LoadMoreDone(req, res)
    \/ \E a \in AllArticles : toggleBookmark(a)
    \/ \E a \in AllArticles : openArticleReader(a)
    \/ closeArticleReader

Spec == Init /\ [][Next]_vars

\* every request to the remote source is answered in the end, by a response or an
\* error: the continuations of the awaited fetches are not postponed for ever
LiveSpec ==
    /\ Init
    /\ [][Next]_vars
    /\ WF_vars(\E req \in BagToSet(inflight), res \in Responses : FetchNewsDone(req, res))
    /\ WF_vars(\E req \in BagToSet(inflight), res \in Responses : LoadMoreDone(req, res))

----------------------------------------------------------------------------
(* The CORS relay: the handler *)

app == <<articles, loading, error, activeCategory, searchQuery, bookmarks, storage,
         page, hasMore, loadingMore, selectedArticle, isRefreshing, mainMounted,
         inflight, ev>>

\* a request reaches the handler
RelayArrive(req) ==
    /\ relay.pc = "idle"
    /\ relay' = [relay EXCEPT !.pc = "received", !.req = req]
    /\ UNCHANGED app

\* the message of the error the handler catches, for the outcome up of its call
\* (variant: a non-success status of the remote source is not looked at)
CaughtIgnoringStatus(up) ==
    IF up.kind = "throw" THEN [thrown |-> TRUE, message |-> up.message]
    ELSE IF ~up.body.json THEN [thrown |-> TRUE, message |-> "Unexpected token"]
    ELSE [thrown |-> FALSE, message |-> ""]

\* fetch rejects; response.json() throws; if (!response.ok) throw new Error(
\* data.message || 'Failed to fetch news'), data.message throwing when data is null
Caught(up) ==
    IF up.kind = "throw" THEN [thrown |-> TRUE, message |-> up.message]
    ELSE IF ~up.body.json THEN [thrown |-> TRUE, message |-> "Unexpected token"]
    ELSE IF ~ResponseOk(up)
    THEN (IF up.body.value.kind = "null"
          THEN [thrown |-> TRUE, message |-> "Cannot read properties of null"]
          ELSE IF up.body.value.message \in {Undefined, ""}
          THEN [thrown |-> TRUE, message |-> FailedMessage]
          ELSE [thrown |-> TRUE, message |-> up.body.value.message])
    ELSE [thrown |-> FALSE, message |-> ""]

\* res.status(500).json({ error: error.message || 'Internal server error' })
ErrorBody(message) ==
    JsonText(JsonObject(IF message = "" THEN "Internal server error" ELSE message,
                        Undefined, Undefined))

\* the handler up to its await
\* (variant: the preflight reply is not followed by return)
handlerStartFallingThrough ==
    /\ relay.pc = "received"
    /\ IF relay.req.method = "OPTIONS"
       THEN relay' = [relay EXCEPT !.pc = "awaiting", !.cors = TRUE, !.status = 200,
                                   !.body = NoBody, !.replies = @ + 1,
                                   !.apiUrl = ApiUrl(relay.req), !.calls = @ + 1]
       ELSE relay' = [relay EXCEPT !.pc = "awaiting", !.cors = TRUE,
                                   !.apiUrl = ApiUrl(relay.req), !.calls = @ + 1]
    /\ UNCHANGED app

\* the handler up to its await: the CORS headers, the preflight reply, the url, the
\* call of the remote source
handlerStart ==
    /\ relay.pc = "received"
    /\ IF relay.req.method = "OPTIONS"
       THEN relay' = [relay EXCEPT !.pc = "replied", !.cors = TRUE, !.status = 200,
                                   !.body = NoBody, !.replies = @ + 1]
       ELSE relay' = [relay EXCEPT !.pc = "awaiting", !.cors = TRUE,
                                   !.apiUrl = ApiUrl(relay.req), !.calls = @ + 1]
    /\ UNCHANGED app

\* the handler after its await, the call of the remote source having come to up
handlerDone(up) ==
    /\ relay.pc = "awaiting"
    /\ relay' = IF Caught(up).thrown
                THEN [relay EXCEPT !.pc = "replied", !.upstream = up, !.status = 500,
                                   !.body = ErrorBody(Caught(up).message),
                                   !.replies = @ + 1]
                ELSE [relay EXCEPT !.pc = "replied", !.upstream = up, !.status = 200,
                                   !.body = JsonText(up.body.value),
                                   !.replies = @ + 1]
    /\ UNCHANGED app

RelayNext ==
    \/ \E m \in RelayMethods, e \in RelayEndpoints, n \in RelayPages,
          k \in RelayClientKeys :
          RelayArrive(RelayRequest(m, e, n, k))
    \/ handlerStart
    \/ \E up \in Upstreams : handlerDone(up)

RelaySpec == Init /\ [][RelayNext]_vars

----------------------------------------------------------------------------
(* Properties *)

\* the program's state, without the history variable
state == <<articles, loading, error, activeCategory, searchQuery, bookmarks, storage,
           page, hasMore, loadingMore, selectedArticle, isRefreshing, mainMounted,
           inflight>>

DoneOps == {"fetchNewsDone", "loadMoreDone"}

\* the handlers that issue a fetch
FetchOps == {"category", "search", "tryAgain", "loadMore", "refresh", "swipe"}

\* a load-more request is added to the fetches in flight by this step
LoadMoreIssued ==
    \E r \in BagToSet(inflight') :
        r.kind = "more" /\ CopiesIn(r, inflight') > CopiesIn(r, inflight)

HasUrl(list, u) == \E i \in DOMAIN list : list[i].url = u

Entries(list) == {list[i] : i \in DOMAIN list}

\* C1: in every reachable state the held article list has no two entries with the
\* same url (the batches of the remote source being duplicate-free each).
C1_NoDuplicateUrls == NoDuplicates(articles)

C3_HasMoreIffFullPage ==
    [][\A req \in BagToSet(inflight), b \in Batches :
          (FetchNewsDone(req, OkRes(b)) \/ LoadMoreDone(req, OkRes(b)))
          => /\ hasMore' <=> (Len(b) = PageSize)
             /\ Len(b) < PageSize => ~hasMore']_vars

\* C3 witness: a full first page was applied and hasMore is true
C3_Witness ==
    /\ ev.op = "fetchNewsDone"
    /\ ev.res = "ok"
    /\ Len(articles) = PageSize
    /\ hasMore

\* C4: a load-more request is issued only from a state with loading = false,
\* loadingMore = false and hasMore = true; handleLoadMore invoked in any other state
\* issues no request and changes no state variable.
C4_LoadMoreGuard ==
    [][/\ LoadMoreIssued => (~loading /\ ~loadingMore /\ hasMore)
       /\ (ev'.op \in {"loadMore", "loadMoreIgnored"} /\ ~(~loading /\ ~loadingMore /\ hasMore))
          => UNCHANGED state]_vars

\* C4 witness: handleLoadMore was invoked while a load-more was in flight and did
\* nothing
C4_Witness ==
    /\ ev.op = "loadMoreIgnored"
    /\ loadingMore
    /\ \E r \in BagToSet(inflight) : r.kind = "more"

\* C5: a successfully applied load-more response keeps the held entries in order and
\* appends, in batch order, exactly the articles of the batch whose url does not
\* occur in the list held when the response is applied.
C5_AppendsUnseenAtApply ==
    [][\A req \in BagToSet(inflight), b \in Batches :
          LoadMoreDone(req, OkRes(b))
          => articles' = articles \o UniqueArticles(articles, b)]_vars

\* C6: when a reset fetch fails (status, thrown error, unparsable body), then on
\* completion error is a non-empty message, the list is empty and loading is false;
\* and no continuation issues a request: the fetches in flight grow only in the
\* handlers of user actions.
C6_ResetFailure ==
    [][/\ \A req \in BagToSet(inflight), res \in FailureResponses :
             FetchNewsDone(req, res)
             => /\ error' \notin {Null, ""}
                /\ articles' = <<>>
                /\ loading' = FALSE
                /\ inflight' = inflight (-) SetToBag({req})
       /\ \A r \in BagToSet(inflight') :
             CopiesIn(r, inflight') > CopiesIn(r, inflight) => ev'.op \in FetchOps]_vars

\* C6 witness: a reset fetch that replaced a loaded list failed on its body
C6_Witness ==
    /\ ev.op = "fetchNewsDone"
    /\ ev.res = "badjson"
    /\ error = "Unexpected token"
    /\ articles = <<>>
    /\ ~loading
    /\ ~hasMore

\* C7: when a load-more fetch fails, the article list, page and hasMore are what they
\* were when the load-more was started, error is unchanged, and loadingMore is false.
C7_LoadMoreFailureRestores ==
    [][\A req \in BagToSet(inflight), res \in FailureResponses :
          LoadMoreDone(req, res)
          => /\ articles' = req.held
             /\ page' = req.pageNum - 1
             /\ hasMore' = TRUE
             /\ error' = error
             /\ loadingMore' = FALSE]_vars

\* C8: at any time at most one fetch for the article list is outstanding.
C8_AtMostOneOutstanding == Outstanding <= 1

\* C9: in-flight requests are never cancelled: a handler of a user action keeps every
\* fetch in flight, and the response of a reset fetch made for another pair than the
\* current one is applied like any other.
C9_NoCancellation ==
    [][/\ ev'.op \notin DoneOps
          => \A r \in BagToSet(inflight) : CopiesIn(r, inflight') >= CopiesIn(r, inflight)
       /\ \A req \in BagToSet(inflight), b \in Batches :
             (FetchNewsDone(req, OkRes(b))
                /\ <<req.category, req.query>> # <<activeCategory, searchQuery>>)
             => articles' = b /\ page' = req.pageNum]_vars

\* C9 witness: the list holds the batch of a fetch made for the bookmarks category
\* while another category is active
C9_Witness ==
    /\ ev.op = "fetchNewsDone"
    /\ ev.res = "ok"
    /\ ev.category = "bookmarks"
    /\ activeCategory = "general"
    /\ articles # <<>>

\* C10: toggleBookmark(a) on a list without an entry of url a.url yields a list that
\* contains a and keeps every previous entry; on a list with such an entry it yields
\* a list without an entry of that url and keeps every entry of another url; in both
\* cases isBookmarked(a) afterwards is the negation of its value before.
C10_ToggleBookmark ==
    [][\A a \in AllArticles :
          toggleBookmark(a)
          => /\ ~HasUrl(bookmarks, a.url)
                => /\ a \in Entries(bookmarks')
                   /\ Entries(bookmarks) \subseteq Entries(bookmarks')
             /\ HasUrl(bookmarks, a.url)
                => /\ ~HasUrl(bookmarks', a.url)
                   /\ \A b \in Entries(bookmarks) : b.url # a.url => b \in Entries(bookmarks')
             /\ HasUrl(bookmarks', a.url) <=> ~HasUrl(bookmarks, a.url)]_vars

\* C10 witness: the stored bookmark of url 1 was removed by a toggle and the other
\* stored bookmark kept
C10_Witness ==
    /\ ev.op = "toggleBookmark"
    /\ ~HasUrl(bookmarks, 1)
    /\ bookmarks = <<Art(2, 0)>>

\* C11: toggling the same article twice in succession gives back the original
\* membership: after a toggleBookmark(a) step, the list a second toggleBookmark(a)
\* computes has the set of urls the list had before the first.
C11_DoubleToggle ==
    [][ev'.op = "toggleBookmark"
          => \A a \in AllArticles :
                toggleBookmark(a)
                => Urls(NewBookmarks(bookmarks', a)) = Urls(bookmarks)]_vars

\* C11 witness: url 1 was toggled off and on again: the stored entry of url 1 is
\* replaced by the article as served, and the set of urls is the original one
C11_Witness ==
    /\ ev.op = "toggleBookmark"
    /\ bookmarks = <<Art(2, 0), Art(1, 1)>>
    /\ Urls(bookmarks) = {1, 2}

\* C12: in every reachable state the persisted bookmark value, read the way the
\* program reads it at startup, is the in-memory bookmark list; and a step changes
\* the one exactly when it changes the other.
C12_StorageMatchesMemory ==
    /\ [](Parse(StoredText(storage)) = bookmarks)
    /\ [][(bookmarks' # bookmarks) <=> (storage' # storage)]_vars

\* C12 witness: an article served by the remote source was bookmarked and is stored
C12_Witness ==
    /\ ev.op = "toggleBookmark"
    /\ Art(1, 1) \in Entries(bookmarks)
    /\ storage.text = <<<<2, 0>>, <<1, 1>>>>

\* C13: whenever activeCategory is bookmarks and the list view is shown, the
\* load-more control is not offered and the displayed entries are exactly the
\* bookmark list, whatever articles, loading, error and searchQuery are.
C13_BookmarksView ==
    (activeCategory = "bookmarks" /\ ListView)
    => (~LoadMoreOffered /\ Displayed = bookmarks)

\* C14: the bookmark list (and its persisted value) is changed by toggleBookmark
\* steps only; hence an article that is bookmarked stays bookmarked over category
\* changes, search changes, fetch responses, load more and reader open/back.
C14_OnlyToggleChangesBookmarks ==
    [][UNCHANGED <<bookmarks, storage>> \/ (\E a \in AllArticles : toggleBookmark(a))]_vars

\* C14 witness: back in the general category after a visit of the bookmarks
\* category, with the article bookmarked from the general grid still bookmarked
C14_Witness ==
    /\ ev.op = "category"
    /\ activeCategory = "general"
    /\ Art(1, 1) \in Entries(bookmarks)
    /\ isBookmarked(Art(1, 1))

\* C15: the view is the list (selectedArticle is null) or the reader (it is an
\* article); openArticleReader moves list to reader, closeArticleReader moves reader
\* to list, no other step changes selectedArticle, and neither of the two issues a
\* request or changes the article list, page or hasMore.
C15_TwoViews ==
    [][(selectedArticle' # selectedArticle \/ ev'.op \in {"openArticle", "closeArticle"})
          => /\ \A a \in AllArticles :
                   openArticleReader(a)
                   => /\ selectedArticle = NoArticle
                      /\ selectedArticle' = a
                      /\ a # NoArticle
                      /\ UNCHANGED <<inflight, articles, page, hasMore>>
             /\ closeArticleReader
                   => /\ selectedArticle # NoArticle
                      /\ selectedArticle' = NoArticle
                      /\ UNCHANGED <<inflight, articles, page, hasMore>>
             /\ (\E a \in AllArticles : openArticleReader(a)) \/ closeArticleReader]_vars

\* C15 witness: back in the list view, from the reader, with the second page loaded
\* and no fetch in flight
C15_Witness ==
    /\ ev.op = "closeArticle"
    /\ selectedArticle = NoArticle
    /\ page = 2
    /\ Len(articles) > PageSize
    /\ Outstanding = 0

\* C16: a reset fetch answered with status 429 sets the rate-limit message, and a
\* reset fetch answered with any other non-success status sets a different message.
C16_RateLimitMessage ==
    [][\A req \in BagToSet(inflight), s \in NonSuccessStatuses :
          FetchNewsDone(req, StatusRes(s))
          => /\ (s = 429) => error' = RateLimitMessage
             /\ (s # 429) => error' \notin {RateLimitMessage, Null}]_vars

\* C16 witness: a reset fetch was answered with 429 and the rate-limit message is set
C16_Witness ==
    /\ ev.op = "fetchNewsDone"
    /\ ev.res = "status"
    /\ error = RateLimitMessage
    /\ RateLimitMessage # FailedMessage

\* C17: in every state with an error message set the try-again action is available,
\* and the search input and the bookmark button of every entry of the list on show
\* are too (category selection is available in every state of this model); a
\* try-again step clears the error, sets loading and issues exactly one page-1 reset
\* fetch for the current category and search text.
C17_TryAgain ==
    /\ [](error # Null
             => /\ TryAgainOffered
                /\ SearchOffered
                /\ Entries(Shown) \subseteq BookmarkButtons)
    /\ [][TryAgain
             => /\ error' = Null
                /\ loading' = TRUE
                /\ inflight' = inflight (+)
                       SetToBag({ResetReq(activeCategory, searchQuery, FALSE)})]_vars

\* C18: every fetch made for category c, page n and an empty search text goes to
\* top-headlines with country=us, category=c, page=n and the page size; every fetch
\* made with a search text t goes to everything with q=t and page=n; reset fetches
\* and load-more fetches alike.
C18_EndpointRule ==
    \A r \in BagToSet(inflight) :
        IF r.query = <<>>
        THEN /\ r.endpoint.path = "top-headlines"
             /\ r.endpoint.country = "us"
             /\ r.endpoint.category = r.category
             /\ r.endpoint.page = r.pageNum
             /\ r.endpoint.pageSize = PageSize
        ELSE /\ r.endpoint.path = "everything"
             /\ r.endpoint.q = EncodeURIComponent(r.query)
             /\ r.endpoint.page = r.pageNum
             /\ r.endpoint.pageSize = PageSize

\* C19: a successfully applied reset fetch leaves page = 1; a load-more requests
\* page + 1, page being read when it starts; a successfully applied load-more
\* response increases page by exactly 1; and when such a response leaves no fetch
\* outstanding, page is the number of the page it applied.
C19_PageNumbering ==
    [][/\ \A req \in BagToSet(inflight), b \in Batches :
             FetchNewsDone(req, OkRes(b)) => (page' = 1 /\ req.endpoint.page = 1)
       /\ \A r \in BagToSet(inflight') :
             (r.kind = "more" /\ CopiesIn(r, inflight') > CopiesIn(r, inflight))
             => (r.pageNum = page + 1 /\ r.endpoint.page = page + 1)
       /\ \A req \in BagToSet(inflight), b \in Batches :
             LoadMoreDone(req, OkRes(b))
             => /\ page' = page + 1
                /\ Outstanding' = 0 => page' = req.pageNum]_vars

\* C20: for every request that is not OPTIONS, the relay replies 200 with the body
\* of the remote source unchanged when the call of the remote source gave a success
\* status and a JSON body, and 500 with a body of the form {error} when the call
\* threw, gave a body that is not JSON, or gave a non-success status; so a reply of
\* 200 to such a request is never that of a failed call.
C20_RelayReplies ==
    /\ [][\A up \in Upstreams :
             handlerDone(up)
             => /\ relay.req.method # "OPTIONS"
                /\ IF up.kind = "response" /\ ResponseOk(up) /\ up.body.json
                   THEN relay'.status = 200 /\ relay'.body = up.body
                   ELSE /\ relay'.status = 500
                        /\ relay'.body.json
                        /\ relay'.body.value.kind = "object"
                        /\ relay'.body.value.error \notin {Undefined, ""}
                        /\ relay'.body.value.message = Undefined
                        /\ relay'.body.value.articles = Undefined]_vars
    /\ []((relay.pc = "replied" /\ relay.req.method # "OPTIONS" /\ relay.status = 200)
              => (relay.upstream.kind = "response" /\ ResponseOk(relay.upstream)
                    /\ relay.upstream.body.json))

\* C20 witness: a POST whose call of the remote source gave status 429 with a JSON
\* body was answered 500 with the message of that body
C20_Witness ==
    /\ relay.pc = "replied"
    /\ relay.req.method = "POST"
    /\ relay.upstream.kind = "response"
    /\ relay.upstream.status = 429
    /\ relay.status = 500
    /\ relay.body.value.error = "apiKeyInvalid"

\* C21: selecting the bookmarks category issues no request to the remote source and
\* leaves loading and error as they are; no fetch is ever made for the bookmarks
\* category.
C21_BookmarksWithoutRequest ==
    /\ [][(activeCategory' = "bookmarks" /\ activeCategory # "bookmarks")
             => (inflight' = inflight /\ loading' = loading /\ error' = error)]_vars
    /\ [](\A r \in BagToSet(inflight) : r.category # "bookmarks")

\* C22: a successfully applied reset response makes the held list exactly the batch
\* received, in batch order; an article held before is held after only if the batch
\* contains it.
C22_ResetReplaces ==
    [][\A req \in BagToSet(inflight), b \in Batches :
          FetchNewsDone(req, OkRes(b))
          => /\ articles' = b
             /\ \A a \in Entries(articles) : a \in Entries(articles') => a \in Entries(b)]_vars

\* C22 witness: a reset response made the list the short batch, while a load-more
\* still in flight shows that the first twelve articles had been held
C22_Witness ==
    /\ ev.op = "fetchNewsDone"
    /\ ev.res = "ok"
    /\ articles = Batch(13, 5)
    /\ \E r \in BagToSet(inflight) : r.kind = "more" /\ r.held = Batch(1, PageSize)

\* the text contains the part, letters compared without regard to case
ContainsIgnoringCase(text, part) ==
    \E k \in 0..Len(text) :
        /\ k + Len(part) <= Len(text)
        /\ \A i \in 1..Len(part) : ToLowerChar(text[k + i]) = ToLowerChar(part[i])

\* the positions of the held articles that match the search text
MatchingPositions ==
    {i \in DOMAIN articles :
        \/ ContainsIgnoringCase(Title(articles[i]), searchQuery)
        \/ ContainsIgnoringCase(Description(articles[i]), searchQuery)}

\* C23: in a non-bookmark category, the list the view shows is the sub-sequence of
\* the held list made of the articles whose title or description contains the search
\* text, case ignored: the j-th entry shown is the held article at the j-th matching
\* position; it is the whole held list when the search text is empty; and it is what
\* is displayed when the grid is rendered.
C23_FilteredList ==
    (activeCategory # "bookmarks")
    => LET matching == MatchingPositions
           shown == Shown
       IN  /\ Len(shown) = Cardinality(matching)
           /\ \A j \in DOMAIN shown :
                 \E i \in matching :
                    /\ Cardinality({k \in matching : k <= i}) = j
                    /\ shown[j] = articles[i]
           /\ searchQuery = <<>> => shown = articles
           /\ GridRendered => Displayed = shown

\* C23 witness: with the search text "Ai" the grid shows some, not all, of the held
\* articles, among them one matching by its title "AI" only
C23_Witness ==
    /\ activeCategory = "general"
    /\ searchQuery = <<"A", "i">>
    /\ GridRendered
    /\ Len(Displayed) > 0
    /\ Len(Displayed) < Len(articles)
    /\ Art(3, 1) \in Entries(Displayed)

\* a reset fetch is outstanding
ResetOutstanding == \E r \in BagToSet(inflight) : r.kind = "reset"

\* C24: every request completing in the end, loading = true leads to loading = false
\* and loadingMore = true leads to loadingMore = false; and loading is true in every
\* state in which a reset fetch is outstanding.
C24_LoadingFlags ==
    /\ loading ~> ~loading
    /\ loadingMore ~> ~loadingMore
    /\ [](ResetOutstanding => loading)

\* C25: the bookmark list loaded at startup having no two entries with the same url,
\* the bookmark list has no two entries with the same url in any reachable state,
\* whatever articles are toggled.
C25_BookmarksNoDuplicates == NoDuplicates(bookmarks)

\* C25 witness: in the reader, the article of url 1 as served was bookmarked in the
\* place of the stored one
C25_Witness ==
    /\ ev.op = "toggleBookmark"
    /\ selectedArticle = Art(1, 1)
    /\ bookmarks = <<Art(2, 0), Art(1, 1)>>
    /\ NoDuplicates(Parse(StoredText(storage)))

\* C26: a toggleBookmark step leaves the held article list, page, hasMore, loading,
\* loadingMore, error, activeCategory, searchQuery and selectedArticle unchanged and
\* issues no request (the fetches in flight are unchanged).
C26_ToggleFrame ==
    [][ev'.op = "toggleBookmark"
          => \A a \in AllArticles :
                toggleBookmark(a)
                => UNCHANGED <<articles, page, hasMore, loading, loadingMore, error,
                               activeCategory, searchQuery, selectedArticle, inflight>>]_vars

\* C26 witness: a bookmark was toggled in the reader while a load-more was in flight
C26_Witness ==
    /\ ev.op = "toggleBookmark"
    /\ selectedArticle # NoArticle
    /\ loadingMore
    /\ Outstanding > 0
    /\ articles # <<>>

\* C27: a pull-to-refresh issues one page-1 reset fetch for the category and the
\* search text active at the time of the gesture, and is started only while
\* isRefreshing is false.
C27_PullToRefresh ==
    [][handlePullToRefresh
          => /\ ~isRefreshing
             /\ inflight' = inflight (+)
                    SetToBag({ResetReq(activeCategory, searchQuery, TRUE)})]_vars

\* C28: a horizontal swipe changes activeCategory relative to the category active
\* when the swipe ends: right selects the previous entry of the category order, left
\* the next one, with no change at the first entry for right and at the last entry
\* for left (stated for the active categories that are entries of the order).
C28_SwipeRelative ==
    [][\A d \in SwipeDirections :
          (handleTouchEnd(d) /\ FindIndex(activeCategory) > 0)
          => activeCategory' = SwipeTarget(d, activeCategory)]_vars

\* C29: the handler sends one response per request: none before it has run to a
\* reply and never more than one; a replied OPTIONS request got 200 with no body and
\* no call of the remote source was made for it; any other replied request got its
\* one response, 200 or 500, after exactly one call of the remote source
C29_OneResponse ==
    /\ relay.replies <= 1
    /\ relay.calls <= 1
    /\ relay.pc = "replied" <=> relay.replies = 1
    /\ relay.pc = "replied" /\ relay.req.method = "OPTIONS" =>
          /\ relay.status = 200
          /\ relay.body = NoBody
          /\ relay.calls = 0
          /\ relay.upstream = NoUpstream
    /\ relay.pc = "replied" /\ relay.req.method # "OPTIONS" =>
          /\ relay.calls = 1
          /\ relay.upstream # NoUpstream
          /\ relay.status \in {200, 500}
    /\ relay.pc = "awaiting" => relay.req.method # "OPTIONS" /\ relay.calls = 1

\* C29 witness: a preflight request answered with 200, no body, and no call made
C29_Witness ==
    /\ relay.pc = "replied"
    /\ relay.req.method = "OPTIONS"
    /\ relay.replies = 1
    /\ relay.calls = 0
    /\ relay.status = 200

\* the parameters the remote source reads from the url of the handler's call
Forwarded == ParseQuery(UrlQuery(relay.apiUrl))

\* the positions of the parameters called name among params
Named(params, name) == {i \in 1..Len(params) : params[i][1] = name}

\* C30: in every call of the remote source the forwarded query has exactly one
\* apiKey parameter and its value is the key of the server, whatever the client
\* sent; every other parameter of the client except endpoint is forwarded once and
\* unchanged, nothing else is forwarded, and endpoint is the path of the call.
C30_ServerKeyOnly ==
    relay.calls > 0 =>
        LET client == SelectSeq(QueryParams(relay.req), LAMBDA p : p[1] # <<"apiKey">>)
            fwd == Forwarded
        IN  /\ Cardinality(Named(fwd, <<"apiKey">>)) = 1
            /\ \A i \in Named(fwd, <<"apiKey">>) : fwd[i][2] = <<API_KEY>>
            /\ \A c \in 1..Len(client) :
                  Cardinality({i \in 1..Len(fwd) : fwd[i] = client[c]}) = 1
            /\ Len(fwd) = Len(client) + 1
            /\ UrlPath(relay.apiUrl) = Endpoint(relay.req)

====
